---- MODULE Spec2Model ----
(***************************************************************************)
(* rp2350_pwm_audio.c: a tone generator that fills a two-chunk ring buffer *)
(* in software while a self-retriggering DMA channel, paced by the PWM     *)
(* slice, drains it.                                                       *)
(*                                                                         *)
(* Spec      the main loop and the DMA channel, any interleaving, with     *)
(*           history counters (bounded by MaxFill, MaxDrain).              *)
(* LiveSpec  the same actions without the history counters (the state      *)
(*           space is then finite and cyclic), with the fairness of a CPU  *)
(*           that keeps executing and a DMA channel that keeps draining.   *)
(* SampleSpec the arithmetic of one sample: xorshift64star,                *)
(*           frand_minus_frand and the mapping to a PWM code.              *)
(* PwmSpec   the first fill cycle, pwm_init and the counter of the slice,   *)
(*           tick by tick (bounded by MaxWraps).                           *)
(* OscSpec   the oscillator: carrier *= advance and the renormalization,   *)
(*           in single precision, bit for bit.                             *)
(*                                                                         *)
(* The buffer holds, for every sample, 0 (static zero initialisation) or   *)
(* 1 (written by the main loop); the value written is the subject of       *)
(* SampleSpec.                                                             *)
(***************************************************************************)
EXTENDS Integers, FiniteSets, Sequences, TLC

\* ----------------------------------------------------------------- bounds
\* log2 of the samples per chunk (the program has 10: 1024 samples)
ChunkBits == 1
\* width of size_t ichunk_filled in bits (the program has 32)
CounterBits == 2
\* history counters stop the model here
MaxFill == 5
MaxDrain == 5
\* samples generated per behaviour of SampleSpec
MaxDraws == 3
\* wraps of the PWM counter per behaviour of PwmSpec
MaxWraps == 2
\* oscillator steps counted, and taken with an advance other than the C
\* library's, per behaviour of OscSpec
MaxSteps == 400

\* -------------------------------------------------------------- constants
SizeofSample == 2
BYTES_PER_CHUNK == 2 ^ (ChunkBits + 1)
BUFFER_WRAP_BITS == ChunkBits + 2
SAMPLES_PER_CHUNK == BYTES_PER_CHUNK \div SizeofSample
SizeofBuffer == SizeofSample * 2 * SAMPLES_PER_CHUNK
CounterMod == 2 ^ CounterBits

VARIABLES
    pc,             \* where the main loop is
    ival,           \* index of the next sample of the fill loop
    ichunk_filled,  \* size_t ichunk_filled, modulo 2^CounterBits
    buffer,         \* buffer[2][SAMPLES_PER_CHUNK]: 0 never written, 1 written
    pwm_en,         \* CSR.EN of the PWM slice
    cc,             \* the PWM compare register, destination of the DMA channel
    read_addr,      \* DMA read address, as a byte offset from &buffer[0]
    trans_count,    \* DMA transfers left in the current block
    intr,           \* dma_hw->intr bit of the channel
    pend,           \* NVIC pending bit of DMA_IRQ_0 (disabled in the NVIC)
    event,          \* the core's event register (WFE / SEVONPEND)
    counting,       \* whether the history counters below are kept
    fill_index,     \* history: increments of ichunk_filled, not wrapped
    drain_index,    \* history: chunks the DMA channel has completed
    nack,           \* history: acknowledgments of the completion flag
    ninit,          \* history: calls of pwm_init
    nxfer,          \* history: samples the DMA channel has transferred
    x,              \* static uint64_t x of xorshift64star: the set of its 1 bits
    bits,           \* the last value xorshift64star returned, likewise
    sample,         \* the last sample, in units of 2^-24
    dither,         \* the last frand_minus_frand(), in units of 2^-23
    code,           \* the last value stored in dst[ival]
    ndraw,          \* history: samples generated
    ctr,            \* the counter of the PWM slice
    since,          \* history: clock ticks since the slice started or wrapped
    period,         \* history: clock ticks between the last two wraps
    nwrap,          \* history: wraps of the counter
    carrier,        \* float complex carrier: [re, im], each a float
    advance,        \* const float complex advance, likewise
    nstep           \* history: oscillator steps

protoVars == <<pc, ival, ichunk_filled, buffer, pwm_en, cc, read_addr,
               trans_count, intr, pend, event>>
histVars == <<counting, fill_index, drain_index, nack, ninit, nxfer>>
numVars == <<x, bits, sample, dither, code, ndraw>>
pwmVars == <<ctr, since, period, nwrap>>
\* what the main loop and the DMA channel leave alone
oscVars == <<carrier, advance, nstep>>
otherVars == <<numVars, pwmVars, oscVars>>
vars == <<protoVars, histVars, numVars, pwmVars, oscVars>>

\* a history counter advances, and bounds the model, only while counting
Count(c) == IF counting THEN c + 1 ELSE c
Below(c, max) == counting => c < max

\* ------------------------------------------------- 64 bit word arithmetic
\* A machine word is the set of the positions of its 1 bits (bit 0 the least
\* significant), so that all 64 bits are kept.
WordBits == 64

RECURSIVE Pow2(_)
Pow2(n) == IF n = 0 THEN 1 ELSE 2 * Pow2(n - 1)

RECURSIVE Log2(_)
Log2(n) == IF n < 2 THEN 0 ELSE 1 + Log2(n \div 2)

\* a >> k
Shr(a, k) == {i - k : i \in {j \in a : j >= k}}
\* a << k, truncated to the word
Shl(a, k) == {i + k : i \in {j \in a : j + k < WordBits}}
\* a ^ b
Xor(a, b) == (a \ b) \cup (b \ a)
\* a & b
And(a, b) == a \cap b
\* a | b
Or(a, b) == a \cup b

\* the value of bits lo..hi of a word, as a number (hi - lo < 31)
RECURSIVE SumPow(_)
SumPow(a) == IF a = {} THEN 0
             ELSE LET i == CHOOSE i \in a : TRUE IN Pow2(i) + SumPow(a \ {i})
Field(a, lo, hi) == SumPow({i - lo : i \in {j \in a : lo <= j /\ j <= hi}})

\* a * k modulo 2^64, by long multiplication on the eight bytes of each
\* word: column c collects the products a[i] * k[c - i] and the carry
LimbBits == WordBits \div 8
Limbs(a) == [n \in 0..7 |-> Field(a, LimbBits * n, LimbBits * n + LimbBits - 1)]

RECURSIVE ColSum(_, _, _, _)
ColSum(A, B, c, i) ==
    IF i > c THEN 0 ELSE A[i] * B[c - i] + ColSum(A, B, c, i + 1)

RECURSIVE MulLimbs(_, _, _, _)
MulLimbs(A, B, c, carry) ==
    IF c = 8 THEN <<>>
    ELSE LET t == carry + ColSum(A, B, c, 0)
         IN  <<t % Pow2(LimbBits)>> \o MulLimbs(A, B, c + 1, t \div Pow2(LimbBits))

WordOfLimbs(d) ==
    UNION {{LimbBits * n + b :
                b \in {e \in 0..(LimbBits - 1) : (d[n + 1] \div Pow2(e)) % 2 = 1}}
           : n \in 0..7}

Mul64(a, k) == WordOfLimbs(MulLimbs(Limbs(a), Limbs(k), 0, 0))

\* the word written as 16 hexadecimal digits, most significant first
WordOfHex(h) ==
    UNION {{4 * (16 - n) + b : b \in {c \in 0..3 : (h[n] \div Pow2(c)) % 2 = 1}}
           : n \in 1..16}

\* --------------------------------------------------------- xorshift64star
\* static uint64_t x = 1
SeedOne == {0}

\* 0x2545F4914F6CDD1DULL
Multiplier == WordOfHex(<<2, 5, 4, 5, 15, 4, 9, 1, 4, 15, 6, 12, 13, 13, 1, 13>>)

\* mutant: x >>= 12 for x ^= x >> 12
XorshiftStateLossy(x0) ==
    LET a == Shr(x0, 12)
        b == Xor(a, Shl(a, 25))
    IN  Xor(b, Shr(b, 27))

\* x ^= x >> 12; x ^= x << 25; x ^= x >> 27: the new value of x
XorshiftState(x0) ==
    LET a == Xor(x0, Shr(x0, 12))
        b == Xor(a, Shl(a, 25))
    IN  Xor(b, Shr(b, 27))

\* return x * 0x2545F4914F6CDD1DULL, for the new value x1 of x
XorshiftReturn(x1) == Mul64(x1, Multiplier)

\* ------------------------------------------------------ frand_minus_frand
\* 0x7FFFFFU: the 23 mantissa bits of a float
MantBits == 23
MantMask == 0..(MantBits - 1)
\* 0x3F800000U: sign 0, biased exponent 127, mantissa 0
OneBits == 23..29
ExpBias == 127

\* the float with bit pattern u, in units of 2^-23 (normal, exponent >= 0)
FloatOfBits(u) ==
    (Pow2(MantBits) + Field(u, 0, MantBits - 1))
        * Pow2(Field(u, MantBits, 30) - ExpBias)
        * (IF 31 \in u THEN -1 ELSE 1)

\* mutant: the first mantissa taken one bit lower, overlapping the second
FrandMinusFrandOverlap(b) ==
    LET xu == Or(OneBits, And(Shr(b, 40), MantMask))
        yu == Or(OneBits, And(Shr(b, 18), MantMask))
    IN  FloatOfBits(xu) - FloatOfBits(yu)

\* x.u = 0x3F800000U | ((bits >> 41) & 0x7FFFFFU), y.u likewise with 18;
\* return x.f - y.f. Both floats lie in [1, 2), where floats are 2^-23
\* apart, so the difference is a multiple of 2^-23 below 1 in magnitude and
\* the subtraction is exact.
FrandMinusFrand(b) ==
    LET xu == Or(OneBits, And(Shr(b, 41), MantMask))
        yu == Or(OneBits, And(Shr(b, 18), MantMask))
    IN  FloatOfBits(xu) - FloatOfBits(yu)

\* ------------------------------------------------- the mapping to a code
\* #define TOP 1024U
TOP == 1024
\* samples are taken from the floats that are multiples of 2^-24
SampleBits == MantBits + 1
SampleOne == Pow2(SampleBits)

\* n rounded to a multiple of q, ties to the even multiple
RoundHalfEven(n, q) ==
    LET lo == (n \div q) * q
        r  == n - lo
    IN  IF 2 * r < q THEN lo
        ELSE IF 2 * r > q THEN lo + q
        ELSE IF (lo \div q) % 2 = 0 THEN lo ELSE lo + q

\* a non-negative numerator rounded to the 24 significant bits of a float
RoundF32(n) ==
    IF n < Pow2(MantBits + 1) THEN n
    ELSE RoundHalfEven(n, Pow2(Log2(n) - MantBits))

\* dst[ival] = ((0.5f + 0.5f * sample) * TOP) + 0.5f + frand_minus_frand()
\* for sample = sn / 2^24 and a dither of dn / 2^23, every float operation
\* rounded as the FPU rounds it, the result truncated to uint16_t.
\*   t = 0.5f * sample         exact: sn / 2^25
\*   u = 0.5f + t              (2^24 + sn) / 2^25, rounded
\*   v = u * TOP               exact, TOP being a power of two: u / 2^(25 - log2 TOP)
\*   w = v + 0.5f              rounded
\*   z = w + dither            rounded; as integer part and fraction in 2^-23
Quantize(sn, dn) ==
    LET tb   == Log2(TOP)
        vden == Pow2(SampleBits + 1 - tb)
        u    == RoundF32(SampleOne + sn)
        w    == RoundF32(u + vden \div 2)
        wInt == w \div vden
        wFr  == (w % vden) * (Pow2(MantBits) \div vden)
        f    == wFr + dn
        zInt == wInt + (f \div Pow2(MantBits))
        zFr  == f % Pow2(MantBits)
        q    == IF zInt >= 1 THEN Pow2(Log2(zInt)) ELSE 1
        rFr  == RoundHalfEven(zFr, q)
        rInt == IF rFr = Pow2(MantBits) THEN zInt + 1 ELSE zInt
    IN  IF zInt < 0 THEN 0 ELSE rInt % Pow2(16)

\* ------------------------------------------- single precision arithmetic
\* A float is [m, e], the number m * 2^e: m = 0, or 2^23 <= |m| < 2^24 (the
\* 24 significant bits, signed). Exponents stay far from those of the
\* subnormal numbers and of infinity in every use below.
F32(m, e) == [m |-> m, e |-> e]
Abs(n) == IF n < 0 THEN -n ELSE n
Sgn(n) == IF n < 0 THEN -1 ELSE 1

\* the float nearest to n * 2^e, ties to even, for 0 <= n < 2^30
Norm(n, e) ==
    IF n = 0 THEN F32(0, 0)
    ELSE LET l == Log2(n) IN
         IF l <= MantBits THEN F32(n * Pow2(MantBits - l), e - (MantBits - l))
         ELSE LET q == Pow2(l - MantBits)
                  r == RoundHalfEven(n, q) \div q
              IN  IF r = Pow2(MantBits + 1)
                  THEN F32(Pow2(MantBits), e + (l - MantBits) + 1)
                  ELSE F32(r, e + (l - MantBits))

FNeg(a) == F32(-a.m, a.e)

\* a * b, rounded: the 48 bit product of the significands from their 12 bit
\* halves, cut to its upper 26 bits and one bit that tells whether anything
\* was cut off
FMul(a, b) ==
    IF a.m = 0 \/ b.m = 0 THEN F32(0, 0)
    ELSE LET h   == Pow2(12)
             am  == Abs(a.m)
             bm  == Abs(b.m)
             a1  == am \div h
             a0  == am % h
             b1  == bm \div h
             b0  == bm % h
             mid == a1 * b0 + a0 * b1
             los == a0 * b0 + (mid % h) * h
             lo  == los % (h * h)
             hi  == a1 * b1 + (mid \div h) + (los \div (h * h))
             cut == Pow2(22)
             n   == 2 * (4 * hi + (lo \div cut))
                      + (IF lo % cut = 0 THEN 0 ELSE 1)
             r   == Norm(n, a.e + b.e + 21)
         IN  F32(Sgn(a.m) * Sgn(b.m) * r.m, r.e)

\* a + b, rounded: the operand of the smaller exponent is shifted under three
\* guard bits, the lowest of which tells whether anything was shifted out
FAdd(a, b) ==
    IF a.m = 0 THEN b
    ELSE IF b.m = 0 THEN a
    ELSE LET hi == IF a.e >= b.e THEN a ELSE b
             lo == IF a.e >= b.e THEN b ELSE a
             d  == IF hi.e - lo.e > 27 THEN 27 ELSE hi.e - lo.e
             b8 == 8 * Abs(lo.m)
             bs == b8 \div Pow2(d)
             bj == IF b8 % Pow2(d) # 0 /\ bs % 2 = 0 THEN bs + 1 ELSE bs
             t  == 8 * hi.m + Sgn(lo.m) * bj
             r  == Norm(Abs(t), hi.e - 3)
         IN  F32(Sgn(t) * r.m, r.e)

FSub(a, b) == FAdd(a, FNeg(b))

\* a / 2.0f: exact
FHalf(a) == IF a.m = 0 THEN a ELSE F32(a.m, a.e - 1)

\* 1.0f and 3.0f
FOne == F32(Pow2(MantBits), -MantBits)
FThree == F32(3 * Pow2(MantBits - 1), -(MantBits - 1))

\* ------------------------------------------------------- the oscillator
Cpx(re, im) == [re |-> re, im |-> im]

\* the product of two float complex values
CMul(a, b) ==
    Cpx(FSub(FMul(a.re, b.re), FMul(a.im, b.im)),
        FAdd(FMul(a.re, b.im), FMul(a.im, b.re)))

\* crealf(x) * crealf(x) + cimagf(x) * cimagf(x)
cmagsquaredf(c) == FAdd(FMul(c.re, c.re), FMul(c.im, c.im))

\* mutant: the division by 2.0f is missing
RenormalizeNoHalf(c) ==
    LET r == FSub(FThree, cmagsquaredf(c))
    IN  Cpx(FMul(c.re, r), FMul(c.im, r))

\* carrier * (3.0f - cmagsquaredf(carrier)) / 2.0f
Renormalize(c) ==
    LET r == FSub(FThree, cmagsquaredf(c))
    IN  Cpx(FHalf(FMul(c.re, r)), FHalf(FMul(c.im, r)))

\* float complex carrier = -1.0f
CarrierStart == Cpx(FNeg(FOne), F32(0, 0))

\* cexpf(I * 2.0f * (float)M_PI * tone_frequency / sample_rate) for 900 Hz
\* and 46875 samples per second: 0.992732167 + 0.120344758 i, the floats
\* 0x3F7E23B2 and 0x3DF67750
AdvanceRe == F32(16655282, -24)
AdvanceIm == F32(16152400, -27)

\* the C library may return a neighbouring float in either part
Advances ==
    {Cpx(F32(AdvanceRe.m + i, AdvanceRe.e), F32(AdvanceIm.m + j, AdvanceIm.e)) :
        i \in -1..1, j \in -1..1}

InitOsc ==
    /\ carrier = CarrierStart
    /\ advance = Cpx(AdvanceRe, AdvanceIm)
    /\ nstep = 0

\* the slice is configured and not yet running: its counter is 0
InitPwm ==
    /\ ctr = 0
    /\ since = 0
    /\ period = 0
    /\ nwrap = 0

InitNum ==
    /\ InitPwm
    /\ InitOsc
    /\ x = SeedOne
    /\ bits = {}
    /\ sample = -SampleOne
    /\ dither = 0
    /\ code = 0
    /\ ndraw = 0

\* ------------------------------------------------------------------- Init
InitProto ==
    /\ pc = "fill"
    /\ ival = 0
    /\ ichunk_filled = 0
    /\ buffer = [s \in 0..1 |-> [i \in 0..(SAMPLES_PER_CHUNK - 1) |-> 0]]
    /\ pwm_en = FALSE
    /\ cc = 0
    /\ read_addr = 0
    /\ trans_count = SAMPLES_PER_CHUNK
    /\ intr = FALSE
    /\ pend = FALSE
    /\ event \in BOOLEAN
    /\ fill_index = 0
    /\ drain_index = 0
    /\ nack = 0
    /\ ninit = 0
    /\ nxfer = 0

Init == InitProto /\ counting = TRUE /\ InitNum

\* mutant: SEVONPEND is left at its reset value
SevOnPendReset == FALSE

\* scb_hw->scr |= M33_SCR_SEVONPEND_BITS: an interrupt that becomes pending
\* sends an event, enabled in the NVIC or not
SevOnPend == TRUE

\* ---------------------------------------------------------- the main loop
\* mutant: the slot is taken from the wrong bit of the counter
DstSecondBit == (ichunk_filled \div 2) % 2

\* uint16_t * const dst = buffer[ichunk_filled % 2]
Dst == ichunk_filled % 2

\* one iteration of the for loop: dst[ival] = ...
FillSample ==
    /\ pc = "fill"
    /\ ival < SAMPLES_PER_CHUNK
    /\ buffer' = [buffer EXCEPT ![Dst][ival] = 1]
    /\ ival' = ival + 1
    /\ UNCHANGED otherVars
    /\ UNCHANGED <<pc, ichunk_filled, pwm_en, cc, read_addr, trans_count,
                   intr, pend, event, histVars>>

\* mutant: the enable bit is not consulted
FirstChunkOnly == ichunk_filled = 0

\* 0 == ichunk_filled && !(csr & EN)
FirstChunkNotArmed == ichunk_filled = 0 /\ ~pwm_en

\* the if branch: pwm_init(slice_num, &config, true)
PwmInit ==
    /\ pc = "fill"
    /\ ival = SAMPLES_PER_CHUNK
    /\ FirstChunkNotArmed
    /\ Below(ninit, 2)
    /\ pwm_en' = TRUE
    /\ ninit' = Count(ninit)
    /\ pc' = "inc"
    /\ UNCHANGED otherVars
    /\ UNCHANGED <<ival, ichunk_filled, buffer, cc, read_addr, trans_count,
                   intr, pend, event, counting, fill_index, drain_index, nack,
                   nxfer>>

\* the else branch is entered
EnterWait ==
    /\ pc = "fill"
    /\ ival = SAMPLES_PER_CHUNK
    /\ ~FirstChunkNotArmed
    /\ pc' = "poll"
    /\ UNCHANGED otherVars
    /\ UNCHANGED <<ival, ichunk_filled, buffer, pwm_en, cc, read_addr,
                   trans_count, intr, pend, event, histVars>>

\* mutant: the loop condition inverted
FlagSet == intr

\* while (!(dma_hw->intr & 1U << IDMA_PWM))
FlagClear == ~intr

\* mutant: the flag is acknowledged without having been waited for
PollNoWait ==
    /\ pc = "poll"
    /\ pc' = "ack_dma"
    /\ UNCHANGED otherVars
    /\ UNCHANGED <<ival, ichunk_filled, buffer, pwm_en, cc, read_addr,
                   trans_count, intr, pend, event, histVars>>

Poll ==
    /\ pc = "poll"
    /\ pc' = IF FlagClear THEN "wfe" ELSE "ack_dma"
    /\ UNCHANGED otherVars
    /\ UNCHANGED <<ival, ichunk_filled, buffer, pwm_en, cc, read_addr,
                   trans_count, intr, pend, event, histVars>>

\* yield(): __dsb(); __wfe(): returns at once, clearing the event register,
\* when it is set, and sleeps until it is set otherwise
Yield ==
    /\ pc = "wfe"
    /\ event
    /\ event' = FALSE
    /\ pc' = "poll"
    /\ UNCHANGED otherVars
    /\ UNCHANGED <<ival, ichunk_filled, buffer, pwm_en, cc, read_addr,
                   trans_count, intr, pend, histVars>>

\* dma_hw->ints0 = 1U << IDMA_PWM
AckDma ==
    /\ pc = "ack_dma"
    /\ Below(nack, MaxDrain)
    /\ intr' = FALSE
    /\ nack' = Count(nack)
    /\ pc' = "irq_clear"
    /\ UNCHANGED otherVars
    /\ UNCHANGED <<ival, ichunk_filled, buffer, pwm_en, cc, read_addr,
                   trans_count, pend, event, counting, fill_index,
                   drain_index, ninit, nxfer>>

\* irq_clear(DMA_IRQ_0): the line is level sensitive, so the interrupt pends
\* again at once when the channel's flag is set again; whether pending again
\* sends an event is left open
IrqClear ==
    /\ pc = "irq_clear"
    /\ pend' = intr
    /\ \E ev \in {FALSE, SevOnPend /\ intr} : event' = (event \/ ev)
    /\ pc' = "inc"
    /\ UNCHANGED otherVars
    /\ UNCHANGED <<ival, ichunk_filled, buffer, pwm_en, cc, read_addr,
                   trans_count, intr, histVars>>

\* mutant: the counter advances by two
IncrementTwice ==
    /\ pc = "inc"
    /\ Below(fill_index, MaxFill)
    /\ ichunk_filled' = (ichunk_filled + 2) % CounterMod
    /\ fill_index' = Count(fill_index)
    /\ ival' = 0
    /\ pc' = "fill"
    /\ UNCHANGED otherVars
    /\ UNCHANGED <<buffer, pwm_en, cc, read_addr, trans_count, intr, pend,
                   event, counting, drain_index, nack, ninit,
                   nxfer>>

\* ichunk_filled++, and the next iteration of while (1) begins
Increment ==
    /\ pc = "inc"
    /\ Below(fill_index, MaxFill)
    /\ ichunk_filled' = (ichunk_filled + 1) % CounterMod
    /\ fill_index' = Count(fill_index)
    /\ ival' = 0
    /\ pc' = "fill"
    /\ UNCHANGED otherVars
    /\ UNCHANGED <<buffer, pwm_en, cc, read_addr, trans_count, intr, pend,
                   event, counting, drain_index, nack, ninit,
                   nxfer>>

Producer ==
    \/ FillSample
    \/ PwmInit
    \/ EnterWait
    \/ Poll
    \/ Yield
    \/ AckDma
    \/ IrqClear
    \/ Increment

\* ------------------------------------------------------- the DMA channel
\* slot and sample the read address points at
ReadSlot == read_addr \div BYTES_PER_CHUNK
ReadIndex == (read_addr % BYTES_PER_CHUNK) \div SizeofSample

\* mutant: the ring is one bit too small, the size of one chunk
RingNextChunk(a) == (a + SizeofSample) % (2 ^ (BUFFER_WRAP_BITS - 1))

\* channel_config_set_ring(&cfg, false, BUFFER_WRAP_BITS): the low
\* BUFFER_WRAP_BITS bits of the read address wrap
RingNext(a) == (a + SizeofSample) % (2 ^ BUFFER_WRAP_BITS)

\* SAMPLES_PER_CHUNK | (1U << 28): the count is reloaded and the channel
\* triggers itself again when a block completes
\* mutant: the self-trigger mode bit is missing, the channel stops
ReloadNone == 0 * SAMPLES_PER_CHUNK

Reload == SAMPLES_PER_CHUNK

\* mutant: the channel is left unpaced, as the default configuration is
DataRequestAlways == TRUE

\* channel_config_set_dreq(&cfg, pwm_get_dreq(slice_num)): the channel is
\* paced by the data requests of the slice, which come from the wraps of its
\* counter, and the counter runs only while the slice is enabled
DataRequest == pwm_en

\* one 16 bit transfer, on a data request of the PWM slice (one per wrap of
\* the enabled slice); the last one of a block raises the interrupt flag,
\* and SEVONPEND sends an event when the interrupt becomes pending
DmaTransfer ==
    /\ DataRequest
    /\ trans_count > 0
    /\ trans_count = 1 => Below(drain_index, MaxDrain)
    /\ cc' = buffer[ReadSlot][ReadIndex]
    /\ read_addr' = RingNext(read_addr)
    /\ nxfer' = Count(nxfer)
    /\ IF trans_count = 1
       THEN /\ trans_count' = Reload
            /\ intr' = TRUE
            /\ pend' = TRUE
            /\ event' = (event \/ (SevOnPend /\ ~pend))
            /\ drain_index' = Count(drain_index)
       ELSE /\ trans_count' = trans_count - 1
            /\ UNCHANGED <<intr, pend, event, drain_index>>
    /\ UNCHANGED otherVars
    /\ UNCHANGED <<pc, ival, ichunk_filled, buffer, pwm_en, counting,
                   fill_index, nack, ninit>>

Next == Producer \/ DmaTransfer

Spec == Init /\ [][Next]_vars

\* ------------------------------------------------------------- liveness
InitLive == InitProto /\ counting = FALSE /\ InitNum

LiveSpec ==
    /\ InitLive
    /\ [][Next]_vars
    /\ WF_vars(Producer)
    /\ WF_vars(DmaTransfer)

\* ------------------------------------------------- one sample, in isolation
\* Values of x the generator is started from. The recurrence is a bijection
\* of the nonzero words with a single cycle, so every nonzero word is a value
\* x takes in the program: the seed 1, the words of one bit, the value before
\* the program's sample 651, and words whose next draw has all-zero or
\* all-one mantissas or a single bit next to a mantissa's edge.
Seeds ==
    {SeedOne}
    \cup {{i} : i \in 0..(WordBits - 1)}
    \cup {WordOfHex(h) : h \in {
        <<7, 9, 14, 2, 14, 11, 10, 1, 13, 12, 8, 4, 7, 14, 8, 15>>,
        <<15, 14, 13, 7, 1, 14, 14, 15, 11, 0, 4, 9, 12, 7, 9, 5>>,
        <<3, 1, 7, 1, 8, 4, 14, 3, 6, 8, 15, 11, 11, 12, 3, 14>>,
        <<10, 8, 13, 3, 9, 5, 11, 14, 4, 11, 1, 9, 12, 12, 14, 8>>,
        <<3, 1, 2, 7, 14, 2, 15, 8, 7, 0, 12, 10, 4, 12, 5, 2>>,
        <<9, 8, 9, 11, 15, 1, 15, 12, 3, 0, 6, 5, 10, 6, 2, 1>>,
        <<10, 7, 5, 2, 6, 5, 4, 14, 13, 5, 5, 5, 5, 11, 14, 10>>,
        <<5, 3, 10, 11, 3, 2, 8, 7, 6, 9, 10, 10, 9, 13, 15, 6>>,
        <<10, 8, 0, 10, 8, 0, 11, 12, 0, 11, 12, 0, 11, 14, 0, 11>>}}

\* crealf(carrier) * tone_amplitude, tone_amplitude = 1.0f: the oscillator is
\* any of -1, -0.5, 0, 0.5, 1 and 16777004 / 2^24 = 0.999987364, the
\* program's sample 651
ProgramSample651 == SampleOne - 212
Samples ==
    {-SampleOne, -(SampleOne \div 2), 0, SampleOne \div 2, SampleOne,
     ProgramSample651}

InitSample ==
    /\ InitProto
    /\ event = FALSE
    /\ counting = TRUE
    /\ InitPwm
    /\ InitOsc
    /\ x \in Seeds
    /\ bits = {}
    /\ sample = -SampleOne
    /\ dither = 0
    /\ code = 0
    /\ ndraw = 0

\* the body of the for loop for one sample (the oscillator left open)
GenSample ==
    /\ ndraw < MaxDraws
    /\ \E sn \in Samples :
        /\ sample' = sn
        /\ x' = XorshiftState(x)
        /\ bits' = XorshiftReturn(x')
        /\ dither' = FrandMinusFrand(bits')
        /\ code' = Quantize(sn, dither')
    /\ ndraw' = ndraw + 1
    /\ UNCHANGED <<protoVars, histVars, pwmVars, oscVars>>

SampleNext == GenSample

SampleSpec == InitSample /\ [][SampleNext]_vars

\* ------------------------------------------------------- the PWM slice
\* set_sys_clock_48mhz(): system clock ticks per second
ClockRate == 48000000

\* const float sample_rate = 48e6f / TOP: the quotient is exact in a float
SampleRate == ClockRate \div TOP

\* pwm_config_set_clkdiv_int(&config, 1) and pwm_config_set_wrap(&config,
\* TOP): the enabled slice counts one per clock tick, 0, 1, ..., TOP, and
\* wraps to 0 on the tick after it shows TOP; a wrap is a data request
PwmTick ==
    /\ pwm_en
    /\ nwrap < MaxWraps
    /\ IF ctr = TOP
       THEN /\ ctr' = 0
            /\ period' = since + 1
            /\ since' = 0
            /\ nwrap' = nwrap + 1
       ELSE /\ ctr' = ctr + 1
            /\ since' = since + 1
            /\ UNCHANGED <<period, nwrap>>
    /\ UNCHANGED <<protoVars, histVars, numVars, oscVars>>

\* the first chunk is filled, the slice is started, and the slice counts
PwmNext == FillSample \/ PwmInit \/ PwmTick

PwmSpec == Init /\ [][PwmNext]_vars

\* ------------------------------------------ the oscillator, in isolation
InitCarrier ==
    /\ InitProto
    /\ event = FALSE
    /\ counting = TRUE
    /\ InitPwm
    /\ x = SeedOne
    /\ bits = {}
    /\ sample = -SampleOne
    /\ dither = 0
    /\ code = 0
    /\ ndraw = 0
    /\ carrier = CarrierStart
    /\ advance \in Advances
    /\ nstep = 0

\* carrier *= advance; carrier = carrier * (3.0f - |carrier|^2) / 2.0f
\* The step count is kept up to MaxSteps. With the advance of the first line
\* of Advances the steps go on beyond it: the carrier returns to a value it
\* had before (after 28417 steps, into a cycle of 625), so the behaviours
\* cover every number of steps. With the neighbouring advances the cycles
\* are of up to 1.8 million carriers, and the steps stop at MaxSteps.
OscStep ==
    /\ nstep < MaxSteps \/ advance = Cpx(AdvanceRe, AdvanceIm)
    /\ carrier' = Renormalize(CMul(carrier, advance))
    /\ nstep' = IF nstep < MaxSteps THEN nstep + 1 ELSE nstep
    /\ UNCHANGED <<protoVars, histVars, numVars, pwmVars, advance>>

OscNext == OscStep

OscSpec == InitCarrier /\ [][OscNext]_vars

TypeOK ==
    /\ pc \in {"fill", "poll", "wfe", "ack_dma", "irq_clear", "inc"}
    /\ ival \in 0..SAMPLES_PER_CHUNK
    /\ ichunk_filled \in 0..(CounterMod - 1)
    /\ read_addr \in 0..(SizeofBuffer - 1)
    /\ trans_count \in 1..SAMPLES_PER_CHUNK
    /\ counting => ichunk_filled = fill_index % CounterMod

\* ================================================================ claims
InWaitLoop == pc \in {"poll", "wfe"}
Filling == pc = "fill" /\ ival < SAMPLES_PER_CHUNK
FillCycleDone == pc = "fill" /\ ival = SAMPLES_PER_CHUNK
\* chunks populated and not yet drained, seen from the wait loop (the chunk
\* just written is populated though ichunk_filled does not count it yet)
Outstanding == fill_index + 1 - drain_index

\* C1: drain_index <= ichunk_filled <= drain_index + 2 in every reachable
\* state, for any interleaving of the main loop and the DMA channel (stated
\* for the states before the fixed-width counter wraps).
C1_Backpressure ==
    fill_index < CounterMod =>
        (drain_index <= ichunk_filled /\ ichunk_filled <= drain_index + 2)

\* C2: the main loop never writes a sample into the slot the (armed) DMA
\* channel's read address lies in.
C2_NoOverlap == ~(Filling /\ pwm_en /\ ReadSlot = Dst)

\* C3: with two chunks outstanding the main loop stays in the wait loop (the
\* flag is clear there and a clear flag keeps it in the loop); it writes
\* chunk n >= 2 only after n - 1 completions; once the flag is set the loop
\* is left with no further event (a sleeping WFE has its event latched and
\* the next flag check leaves the loop).
C3_BlockAndResume ==
    /\ []((InWaitLoop /\ Outstanding >= 2) => ~intr)
    /\ [][(InWaitLoop /\ ~intr) => InWaitLoop']_vars
    /\ []((pc = "fill" /\ fill_index >= 2) => drain_index >= fill_index - 1)
    /\ []((pc = "wfe" /\ intr) => event)
    /\ [][(pc = "wfe" /\ pc' # pc) => pc' = "poll"]_vars
    /\ [][(pc = "poll" /\ intr /\ pc' # pc) => pc' = "ack_dma"]_vars

\* the main loop slept in WFE with two chunks outstanding and was woken by
\* exactly one completion
C3_Witness ==
    /\ pc = "ack_dma"
    /\ ~event
    /\ fill_index >= 2
    /\ drain_index = fill_index

\* C4: the PWM slice is disabled until the first chunk is complete, the step
\* after the first fill cycle enables it, and pwm_init runs exactly once,
\* also after ichunk_filled has wrapped to 0.
C4_ArmOnce ==
    /\ []((fill_index = 0 /\ pc = "fill") => ~pwm_en)
    /\ [][(FillCycleDone /\ fill_index = 0 /\ pc' # pc) => pwm_en']_vars
    /\ [](ninit <= 1)
    /\ [](pwm_en <=> ninit = 1)
    /\ [](fill_index >= 1 => pwm_en)

\* the counter has wrapped to 0 and the if at the end of that fill cycle
\* took the else branch
C4_Witness ==
    /\ fill_index >= CounterMod
    /\ ichunk_filled = 0
    /\ pc = "poll"
    /\ ninit = 1

\* C5: acknowledgments = completions - pending (0 or 1) in every state.
C5_AckPerCompletion == nack = drain_index - (IF intr THEN 1 ELSE 0)

\* C7: with a CPU that keeps executing and a DMA channel that keeps
\* draining, some step is always possible, every entry into the wait loop
\* leads to an acknowledgment, and ichunk_filled keeps advancing (it takes
\* every value again and again).
C7_NoDeadlock ==
    /\ [](ENABLED Next)
    /\ (pc = "poll") ~> (pc = "ack_dma")
    /\ \A v \in 0..(CounterMod - 1) : []<>(ichunk_filled = v)

\* the main loop asleep in WFE, waiting for the channel
C7_Witness == pc = "wfe" /\ ~event /\ ~intr /\ pwm_en /\ ~counting

\* C8 as stated: ichunk_filled never decreases.
C8_NeverDecreases == [][ichunk_filled' >= ichunk_filled]_vars

\* C8 as amended: ichunk_filled changes only by the increment that ends a
\* fully populated fill cycle, by one modulo 2^CounterBits, and decreases
\* only when it wraps from 2^CounterBits - 1 to 0.
C8_IncrementModulo ==
    /\ [][ichunk_filled' # ichunk_filled =>
            /\ pc = "inc"
            /\ ival = SAMPLES_PER_CHUNK
            /\ \A i \in 0..(SAMPLES_PER_CHUNK - 1) : buffer[Dst][i] = 1
            /\ ichunk_filled' = (ichunk_filled + 1) % CounterMod
            /\ ichunk_filled' < ichunk_filled =>
                   (ichunk_filled = CounterMod - 1 /\ ichunk_filled' = 0)]_vars
    /\ [][(pc = "inc" /\ pc' = "fill") => ichunk_filled' # ichunk_filled]_vars

\* the counter has just wrapped
C8_Witness == fill_index = CounterMod /\ ichunk_filled = 0 /\ pc = "fill"
\* C6: every code stored in the buffer lies in [0, TOP].
C6_CodeInRange == ndraw > 0 => (0 <= code /\ code <= TOP)

\* C9: the state x of xorshift64star is never zero.
C9_NeverZero == x # {}

\* three calls after the seed 1
C9_Witness ==
    /\ ndraw = 3
    /\ x = XorshiftState(XorshiftState(XorshiftState(SeedOne)))

\* C10: the dither is (m1 - m2) / 2^23 with m1 the bits 41..63 and m2 the
\* bits 18..40 of the draw, two disjoint ranges, and lies strictly between
\* -1 and 1.
C10_DitherRange ==
    ndraw > 0 =>
        /\ dither = Field(bits, 41, 63) - Field(bits, 18, 40)
        /\ (41..63) \cap (18..40) = {}
        /\ -Pow2(MantBits) < dither
        /\ dither < Pow2(MantBits)

\* a draw with the first mantissa all ones and the second all zeros: the
\* largest dither there is
C10_Witness ==
    /\ ndraw > 0
    /\ bits = 41..63
    /\ dither = Pow2(MantBits) - 1

\* C11: the sample rate the oscillator computes its phase advance with,
\* 48e6f / TOP, is the rate at which the slice asks for samples: the clock
\* ticks between two wraps, times that rate, are the clock ticks of a second
C11_RateMatches == nwrap > 0 => SampleRate * period = ClockRate

\* |f| in units of 2^-24, rounded down, for a float below 2
Trunc24(f) ==
    LET sh == -(MantBits + 1) - f.e
    IN  IF sh <= 0 THEN Abs(f.m) * Pow2(-sh)
        ELSE IF sh > MantBits THEN 0
        ELSE Abs(f.m) \div Pow2(sh)

\* (s^2 + t^2) / 2^24 rounded down, for 0 <= s, t <= 2^25, the squares taken
\* from 12 bit halves
SumSq24(s, t) ==
    LET h      == Pow2(12)
        Mid(a) == 2 * (a \div h) * (a % h)
        Los(a) == (a % h) * (a % h) + (Mid(a) % h) * h
        Hi(a)  == (a \div h) * (a \div h) + (Mid(a) \div h) + (Los(a) \div (h * h))
        Lo(a)  == Los(a) % (h * h)
    IN  Hi(s) + Hi(t) + ((Lo(s) + Lo(t)) \div (h * h))

\* 1 - (1 - 1/TolInv)^2 = (2 TolInv - 1) / TolInv^2 in units of 2^-24,
\* rounded down (3353, of 3355.3; for (1 + 1/TolInv)^2 - 1 it is 3355.6)
TolInv == 10 ^ 4
TolGap == ((2 * TolInv - 1) * (Pow2(MantBits + 1) \div TolInv)) \div TolInv

\* C12: after any number of oscillator steps from carrier = -1 the magnitude
\* of the carrier differs from 1 by less than 1e-4: both parts are below 2,
\* and re^2 + im^2, bounded from below with the parts rounded towards zero
\* and from above with them rounded away from zero, lies strictly between
\* (1 - 1e-4)^2 and (1 + 1e-4)^2
C12_UnitMagnitude ==
    /\ carrier.re.m = 0 \/ carrier.re.e <= -MantBits
    /\ carrier.im.m = 0 \/ carrier.im.e <= -MantBits
    /\ SumSq24(Trunc24(carrier.re), Trunc24(carrier.im))
         >= Pow2(MantBits + 1) - TolGap
    /\ SumSq24(Trunc24(carrier.re) + 1, Trunc24(carrier.im) + 1)
         < Pow2(MantBits + 1) + TolGap
\* all counted steps are taken, the magnitude has been off 1 and corrected
C12_Witness ==
    /\ nstep = MaxSteps
    /\ advance = Cpx(AdvanceRe, AdvanceIm)
    /\ cmagsquaredf(carrier) # FOne
    /\ cmagsquaredf(Renormalize(carrier)) = FOne

\* C13: consecutive fill cycles write alternating slots, also across the
\* wraparound of ichunk_filled: a write of fill cycle k (k counted without
\* wrapping) goes to slot k mod 2 and to no other place, and the slot after
\* an increment of the counter is the other one
C13_SlotsAlternate ==
    /\ [][buffer' # buffer =>
            \E i \in 0..(SAMPLES_PER_CHUNK - 1) :
                buffer' = [buffer EXCEPT ![fill_index % 2][i] = 1]]_vars
    /\ [][ichunk_filled' # ichunk_filled => Dst' = 1 - Dst]_vars
    /\ [](Dst = fill_index % 2)
\* a sample has been written to slot 0 in the cycle after the counter wrapped
C13_Witness ==
    /\ fill_index = CounterMod
    /\ ichunk_filled = 0
    /\ pc = "fill"
    /\ ival = 1
    /\ Dst = 0

\* C14: the channel raises its completion once per SAMPLES_PER_CHUNK samples
\* transferred (the completions so far are the whole blocks among the n
\* samples so far, and the count left is what the current block lacks), its
\* read position after n samples is sample n mod (2 * SAMPLES_PER_CHUNK) of
\* the buffer, it drains the chunks in the order 0, 1, 0, 1, ..., and
\* nothing but a transfer of the channel itself moves its address or count
C14_RingAndReload ==
    /\ [](drain_index = nxfer \div SAMPLES_PER_CHUNK)
    /\ [](trans_count = SAMPLES_PER_CHUNK - (nxfer % SAMPLES_PER_CHUNK))
    /\ [](read_addr = SizeofSample * (nxfer % (2 * SAMPLES_PER_CHUNK)))
    /\ [](ReadSlot = drain_index % 2)
    /\ [][(drain_index' # drain_index) <=>
            (nxfer' # nxfer /\ nxfer' % SAMPLES_PER_CHUNK = 0)]_vars
    /\ [][(read_addr' # read_addr \/ trans_count' # trans_count) =>
            (nxfer' = nxfer + 1 /\ pc' = pc)]_vars
\* both chunks have been drained and the channel is in chunk 0 again
C14_Witness ==
    /\ nxfer = 2 * SAMPLES_PER_CHUNK + 1
    /\ drain_index = 2
    /\ ReadSlot = 0
    /\ ReadIndex = 1

\* the top of an iteration of while (1)
LoopTop == pc = "fill" /\ ival = 0
Max(a, b) == IF a >= b THEN a ELSE b

\* C15: the producer acknowledges the completion flag only where the flag is
\* set, and once per fill cycle other than the first: an acknowledgment
\* clears a flag that is set, and at the top of every iteration of the loop
\* the acknowledgments so far are max(0, ichunk_filled - 1) (the counter not
\* having wrapped), max(0, k - 1) after k fill cycles
C15_AckPerCycle ==
    /\ [](pc = "ack_dma" => intr)
    /\ [][nack' # nack => (intr /\ ~intr' /\ nack' = nack + 1)]_vars
    /\ []((LoopTop /\ fill_index < CounterMod) =>
            nack = Max(0, ichunk_filled - 1))
    /\ [](LoopTop => nack = Max(0, fill_index - 1))
\* the top of the fourth iteration, two acknowledgments after the first
\* cycle's none
C15_Witness ==
    /\ LoopTop
    /\ ichunk_filled = CounterMod - 1
    /\ fill_index = ichunk_filled
    /\ nack = ichunk_filled - 1

\* C16: the wait loop has no lost wake-up. The producer is never at the
\* wait-for-event instruction with the completion flag set and no event
\* latched: a completion that arrives after the flag was read as clear has
\* latched one. The wait then returns to the test of the flag, which is
\* still set there and ends the loop; the producer, at the instruction with
\* the flag set, goes on to acknowledge it.
C16_NoLostWakeup ==
    /\ []((pc = "wfe" /\ intr) => (event /\ ENABLED Yield))
    /\ [][(pc = "poll" /\ pc' = "wfe") => ~intr]_vars
    /\ [][(pc = "wfe" /\ intr /\ pc' # pc) => (pc' = "poll" /\ intr')]_vars
    /\ [][(pc = "poll" /\ intr /\ pc' # pc) => (pc' = "ack_dma" /\ intr')]_vars
    /\ ((pc = "wfe" /\ intr) ~> (pc = "ack_dma"))
\* the last transfer of a block arrived between the read of the flag and the
\* wait: the flag is set, the interrupt pending and the event latched
C16_Witness ==
    /\ pc = "wfe"
    /\ intr
    /\ event
    /\ pend
    /\ trans_count = SAMPLES_PER_CHUNK
    /\ ~counting

\* C17: the channel, started before the first fill cycle, transfers no sample
\* and raises no completion before the slice is armed: in every state before
\* arming it has read no sample, stands at the start of the buffer with a
\* whole block to go, and its flag is clear; the slice is armed only with
\* chunk 0 fully populated; so every sample the channel emits from chunk 0
\* is one the producer has written
C17_QuietUntilArmed ==
    /\ [](~pwm_en => (nxfer = 0 /\ drain_index = 0 /\ ~intr /\ ~pend
                        /\ read_addr = 0 /\ trans_count = SAMPLES_PER_CHUNK))
    /\ [][nxfer' # nxfer => pwm_en]_vars
    /\ [][(~pwm_en /\ pwm_en') =>
            \A i \in 0..(SAMPLES_PER_CHUNK - 1) : buffer[0][i] = 1]_vars
    /\ [][(nxfer' # nxfer /\ ReadSlot = 0) =>
            (buffer[0][ReadIndex] = 1 /\ cc' = 1)]_vars
\* the first sample of chunk 0 has just been emitted, right after pwm_init
C17_Witness ==
    /\ pwm_en
    /\ nxfer = 1
    /\ cc = 1
    /\ fill_index = 0
    /\ pc = "inc"

====
